---------------------------- MODULE Spec2Model ----------------------------
(***************************************************************************)
(* Model of ProcessadorOrcamento (src/src/processador_orcamento.py): the   *)
(* budget reallocation run identificar_deficits -> remanejamento_interno   *)
(* -> remanejamento_externo -> validar_resultado, and the commit           *)
(* operation registrar_transferencia.                                      *)
(*                                                                         *)
(* Money is an integer number of thousandths of the currency unit, so that *)
(* 0.01 is 10 and round(valor, 2) is rounding to a multiple of 10.  The    *)
(* ledgers of Init hold whole cents (multiples of 10), for which 20% and   *)
(* 40% of a balance are exact and even; every amount of a run is then even *)
(* and round(valor, 2) never meets a tie.  The code computes in binary     *)
(* floating point; the model computes the same amounts exactly.            *)
(* None (an absent fund, an unset FONTE_PROIBIDA) is 0: the parser keeps a *)
(* fund only when it is > 0 (line 221, 245).                               *)
(* Unit and nature codes are the six digits read as a number; a nature's   *)
(* dois_primeiros_digitos is then codigo \div 10000.                       *)
(***************************************************************************)
EXTENDS Integers, Sequences, FiniteSets, TLC

VARIABLES
    FONTE_PROIBIDA,       \* self.FONTE_PROIBIDA (0 = None)
    NATUREZAS_PROIBIDAS,  \* self.NATUREZAS_PROIBIDAS
    ugs_dados,            \* self.ugs_dados: the ledger, units in parse order
    remanejamentos,       \* self.remanejamentos: the committed TransferRecords
    hist,                 \* history: per record, the natures and the unrounded valor
    valor_transferir,     \* the local of remanejamento_interno (Unbound until assigned)
    pc,                   \* position of processar_arquivo
    iu,                   \* index of the unit loop of the running pass
    ugs_deficitarias,     \* the local list of remanejamento_externo
    total_deficits,       \* deficits_totais, the result of identificar_deficits
    validacoes,           \* the result of validar_resultado
    resultado,            \* what processar_arquivo returns (<<>> until it does)
    chamada               \* history: the last direct call of a method (n: calls so far)

vars == <<FONTE_PROIBIDA, NATUREZAS_PROIBIDAS, ugs_dados, remanejamentos, hist,
          valor_transferir, pc, iu, ugs_deficitarias, total_deficits,
          validacoes, resultado, chamada>>

-----------------------------------------------------------------------------
(* Program constants *)

\* Variant of PERCENTUAL_RESERVA_MINIMA: a reserve of 10%
ReservaMinimaDez == 20 \div 2

\* PERCENTUAL_RESERVA_MINIMA = 0.20, as a percentage
PERCENTUAL_RESERVA_MINIMA == 20

\* PERCENTUAL_DOACAO_MAXIMA_POR_VEZ = 0.40, as a percentage
PERCENTUAL_DOACAO_MAXIMA_POR_VEZ == 40

\* PRIORIZAR_DOACAO_UNICA = True
PRIORIZAR_DOACAO_UNICA == TRUE

\* the literal 0.01 of the passes and of validar_resultado, in thousandths
EPS == 10

\* None
None == 0

\* necessidade_total not yet set on a nature (the key is absent)
Ausente == -1

\* valor_transferir before its first assignment
Unbound == -1

-----------------------------------------------------------------------------
(* Bounds of the model *)

\* units of a ledger
MaxUGs == 2

\* natures of a unit
MaxNat == 2

\* direct calls of registrar_transferencia in SpecRegistrar
MaxChamadas == 2

\* natures of a unit in SpecTres
MaxNatTres == 3

\* units of a ledger in SpecExterno
MaxUGsExterno == 3

-----------------------------------------------------------------------------
(* Arithmetic *)

Max(a, b) == IF a >= b THEN a ELSE b

Min(a, b) == IF a <= b THEN a ELSE b

Abs(a) == IF a < 0 THEN -a ELSE a

\* x * (p / 100); exact on the balances of Init (whole cents)
Pct(x, p) == (x * p) \div 100

\* round(valor, 2): to the nearest multiple of 10 thousandths, a tie to the
\* even cent
Round2(v) ==
    LET r == v % 10
        lo == v - r
    IN  IF r < 5 THEN lo
        ELSE IF r > 5 THEN lo + 10
        ELSE IF (lo \div 10) % 2 = 0 THEN lo ELSE lo + 10

-----------------------------------------------------------------------------
(* The ledger.  A nature is named by <<u, n>>: nature n of unit u. *)

\* ugs[r[1]]['naturezas'][r[2]]
NatAt(ugs, r) == ugs[r[1]].naturezas[r[2]]

\* natureza['dois_primeiros_digitos'] = codigo[:2]
dois_primeiros_digitos(nat) == nat.codigo \div 10000

\* The natures of unit u, in parse order
RefsDaUG(ugs, u) == [n \in 1..Len(ugs[u].naturezas) |-> <<u, n>>]

\* Every nature of the ledger
TodasRefs(ugs) ==
    UNION {{<<u, n>> : n \in 1..Len(ugs[u].naturezas)} : u \in 1..Len(ugs)}

\* natureza_eh_proibida: the code, stripped of dots and spaces (none in six
\* digits), is in NATUREZAS_PROIBIDAS
natureza_eh_proibida(codigo_natureza) == codigo_natureza \in NATUREZAS_PROIBIDAS

\* The elements of a list
Range(seq) == {seq[i] : i \in 1..Len(seq)}

\* list.sort(key=..., reverse=True): stable, descending; key is a function
\* on the elements of the list
RECURSIVE InserirDesc(_, _, _)
InserirDesc(x, sorted, key) ==
    IF sorted = <<>> THEN <<x>>
    ELSE IF key[Head(sorted)] >= key[x]
         THEN <<Head(sorted)>> \o InserirDesc(x, Tail(sorted), key)
         ELSE <<x>> \o sorted

RECURSIVE SortDesc(_, _)
SortDesc(seq, key) ==
    IF seq = <<>> THEN <<>>
    ELSE LET rest == SortDesc(SubSeq(seq, 1, Len(seq) - 1), key)
         IN  InserirDesc(seq[Len(seq)], rest, key)

\* Variant of SortPorSaldo without reverse=True: smallest balance first
SortPorSaldoCrescente(refs, ugs) ==
    SortDesc(refs, [r \in Range(refs) |-> 0 - NatAt(ugs, r).saldo_atual])

\* x.sort(key=lambda x: x['saldo_atual'], reverse=True) on a list of natures
SortPorSaldo(refs, ugs) ==
    SortDesc(refs, [r \in Range(refs) |-> NatAt(ugs, r).saldo_atual])

\* sum(...) of a list of numbers
RECURSIVE Soma(_)
Soma(seq) == IF seq = <<>> THEN 0 ELSE Head(seq) + Soma(Tail(seq))

-----------------------------------------------------------------------------
(* calcular_capacidade_doacao *)

\* Variant of calcular_capacidade_doacao without the per-operation limit of
\* line 316
CapacidadeSemLimitePorVez(natureza) ==
    LET saldo_original == natureza.saldo_original
        saldo_atual == natureza.saldo_atual
        saldo_minimo == Pct(saldo_original, PERCENTUAL_RESERVA_MINIMA)
        capacidade_maxima == saldo_original - saldo_minimo
        quanto_ja_doou == saldo_original - saldo_atual
        quanto_ainda_pode_doar == Max(0, capacidade_maxima - quanto_ja_doou)
        capacidade_real == Min(quanto_ainda_pode_doar, saldo_atual - saldo_minimo)
    IN  IF saldo_atual <= 0 THEN 0 ELSE Max(0, capacidade_real)

\* Variant of calcular_capacidade_doacao that returns capacidade_real as it
\* is (without the max(0, ...) of line 321)
CapacidadeSemPiso(natureza) ==
    LET saldo_original == natureza.saldo_original
        saldo_atual == natureza.saldo_atual
        saldo_minimo == Pct(saldo_original, PERCENTUAL_RESERVA_MINIMA)
        capacidade_maxima == saldo_original - saldo_minimo
        doacao_maxima_por_vez == Pct(saldo_original, PERCENTUAL_DOACAO_MAXIMA_POR_VEZ)
        quanto_ja_doou == saldo_original - saldo_atual
        quanto_ainda_pode_doar == Max(0, capacidade_maxima - quanto_ja_doou)
        capacidade_real == Min(Min(quanto_ainda_pode_doar, doacao_maxima_por_vez),
                               saldo_atual - saldo_minimo)
    IN  IF saldo_atual <= 0 THEN 0 ELSE capacidade_real

calcular_capacidade_doacao(natureza) ==
    LET saldo_original == natureza.saldo_original
        saldo_atual == natureza.saldo_atual
        saldo_minimo == Pct(saldo_original, PERCENTUAL_RESERVA_MINIMA)
        capacidade_maxima == saldo_original - saldo_minimo
        doacao_maxima_por_vez == Pct(saldo_original, PERCENTUAL_DOACAO_MAXIMA_POR_VEZ)
        quanto_ja_doou == saldo_original - saldo_atual
        quanto_ainda_pode_doar == Max(0, capacidade_maxima - quanto_ja_doou)
        capacidade_real == Min(Min(quanto_ainda_pode_doar, doacao_maxima_por_vez),
                               saldo_atual - saldo_minimo)
    IN  IF saldo_atual <= 0 THEN 0 ELSE Max(0, capacidade_real)

-----------------------------------------------------------------------------
(* registrar_transferencia.  A pass threads st = [ugs, rem, hist] through  *)
(* its calls.                                                              *)

\* The fund written to the record: the source nature's, else that of the
\* first unit whose code is ug_origem, else '' (0)
FonteDoRegistro(ugs, ug_origem, nat_origem) ==
    IF nat_origem.fonte # None THEN nat_origem.fonte
    ELSE LET com == {u \in 1..Len(ugs) : ugs[u].codigo = ug_origem}
         IN  IF com = {} THEN None
             ELSE ugs[CHOOSE u \in com : \A v \in com : u <= v].fonte

\* Variant of Rejeitada without the two checks on saldo_original (lines
\* 658-664)
RejeitadaSemSinal(ugs, ro, rd, valor) ==
    LET nat_origem == NatAt(ugs, ro)
        nat_destino == NatAt(ugs, rd)
        saldo_minimo == Pct(nat_origem.saldo_original, PERCENTUAL_RESERVA_MINIMA)
        saldo_apos_doacao == nat_origem.saldo_atual - valor
    IN  \/ valor > nat_origem.saldo_atual
        \/ saldo_apos_doacao < saldo_minimo
        \/ natureza_eh_proibida(nat_origem.codigo)
        \/ natureza_eh_proibida(nat_destino.codigo)

\* Variant of Rejeitada without the reserve check (lines 672-677)
RejeitadaSemReserva(ugs, ro, rd, valor) ==
    LET nat_origem == NatAt(ugs, ro)
        nat_destino == NatAt(ugs, rd)
    IN  \/ nat_origem.saldo_original <= 0
        \/ nat_destino.saldo_original >= 0
        \/ valor > nat_origem.saldo_atual
        \/ natureza_eh_proibida(nat_origem.codigo)
        \/ natureza_eh_proibida(nat_destino.codigo)

\* The checks before the commit (lines 658-686): TRUE when the call returns
\* without committing
Rejeitada(ugs, ro, rd, valor) ==
    LET nat_origem == NatAt(ugs, ro)
        nat_destino == NatAt(ugs, rd)
        saldo_minimo == Pct(nat_origem.saldo_original, PERCENTUAL_RESERVA_MINIMA)
        saldo_apos_doacao == nat_origem.saldo_atual - valor
    IN  \/ nat_origem.saldo_original <= 0
        \/ nat_destino.saldo_original >= 0
        \/ valor > nat_origem.saldo_atual
        \/ saldo_apos_doacao < saldo_minimo
        \/ natureza_eh_proibida(nat_origem.codigo)
        \/ natureza_eh_proibida(nat_destino.codigo)

\* Variant of Efetivar that adds to the destination the amount stored in the
\* record (round(valor, 2)) while the source loses valor
EfetivarSomandoRegistrado(st, ug_origem, ro, ug_destino, rd, valor, tipo) ==
    LET nat_origem == NatAt(st.ugs, ro)
        nat_destino == NatAt(st.ugs, rd)
        registro == [Tipo |-> tipo,
                     Fonte |-> FonteDoRegistro(st.ugs, ug_origem, nat_origem),
                     UGOrigem |-> ug_origem,
                     NaturezaOrigem |-> nat_origem.codigo,
                     NomeNaturezaOrigem |-> nat_origem.nome,
                     UGDestino |-> ug_destino,
                     NaturezaDestino |-> nat_destino.codigo,
                     NomeNaturezaDestino |-> nat_destino.nome,
                     Valor |-> Round2(valor)]
        ugs1 == [st.ugs EXCEPT ![ro[1]].naturezas[ro[2]].saldo_atual = @ - valor]
        ugs2 == [ugs1 EXCEPT ![rd[1]].naturezas[rd[2]].saldo_atual = @ + registro.Valor]
    IN  [st EXCEPT !.ugs = ugs2,
                   !.rem = Append(@, registro),
                   !.hist = Append(@, [origem |-> ro, destino |-> rd, valor |-> valor])]

\* The commit (lines 691-718): the record, then the two balances
Efetivar(st, ug_origem, ro, ug_destino, rd, valor, tipo) ==
    LET nat_origem == NatAt(st.ugs, ro)
        nat_destino == NatAt(st.ugs, rd)
        registro == [Tipo |-> tipo,
                     Fonte |-> FonteDoRegistro(st.ugs, ug_origem, nat_origem),
                     UGOrigem |-> ug_origem,
                     NaturezaOrigem |-> nat_origem.codigo,
                     NomeNaturezaOrigem |-> nat_origem.nome,
                     UGDestino |-> ug_destino,
                     NaturezaDestino |-> nat_destino.codigo,
                     NomeNaturezaDestino |-> nat_destino.nome,
                     Valor |-> Round2(valor)]
        ugs1 == [st.ugs EXCEPT ![ro[1]].naturezas[ro[2]].saldo_atual = @ - valor]
        ugs2 == [ugs1 EXCEPT ![rd[1]].naturezas[rd[2]].saldo_atual = @ + valor]
    IN  [st EXCEPT !.ugs = ugs2,
                   !.rem = Append(@, registro),
                   !.hist = Append(@, [origem |-> ro, destino |-> rd, valor |-> valor])]

registrar_transferencia(st, ug_origem, ro, ug_destino, rd, valor, tipo) ==
    IF Rejeitada(st.ugs, ro, rd, valor) THEN st
    ELSE Efetivar(st, ug_origem, ro, ug_destino, rd, valor, tipo)

-----------------------------------------------------------------------------
(* identificar_deficits *)

\* Variant of Participa without the fund filter
ParticipaSemFonte(nat) == ~natureza_eh_proibida(nat.codigo)

\* Neither on the prohibited fund nor a prohibited code (the two filters the
\* passes and the scanner apply to a nature)
Participa(nat) ==
    nat.fonte # FONTE_PROIBIDA /\ ~natureza_eh_proibida(nat.codigo)

\* The natures the scanner appends to deficits_ug
DeficitsIdentificados(ugs) ==
    {r \in TodasRefs(ugs) :
        /\ ugs[r[1]].fonte # FONTE_PROIBIDA
        /\ NatAt(ugs, r).saldo_original < 0
        /\ Participa(NatAt(ugs, r))}

\* Variant of identificar_deficits that stores the deficit under saldo_atual
\* (the wrong key at line 358)
IdentificarNoSaldo(ugs) ==
    [u \in 1..Len(ugs) |->
        [codigo |-> ugs[u].codigo,
         fonte |-> ugs[u].fonte,
         naturezas |->
            [n \in 1..Len(ugs[u].naturezas) |->
                LET nat == ugs[u].naturezas[n]
                IN  IF <<u, n>> \in DeficitsIdentificados(ugs)
                    THEN [nat EXCEPT !.necessidade_total = Abs(nat.saldo_original),
                                     !.saldo_atual = Abs(nat.saldo_original)]
                    ELSE nat]]]

\* The ledger after the scan: necessidade_total set on each deficit
identificar_deficits(ugs) ==
    [u \in 1..Len(ugs) |->
        [codigo |-> ugs[u].codigo,
         fonte |-> ugs[u].fonte,
         naturezas |->
            [n \in 1..Len(ugs[u].naturezas) |->
                LET nat == ugs[u].naturezas[n]
                IN  IF <<u, n>> \in DeficitsIdentificados(ugs)
                    THEN [nat EXCEPT !.necessidade_total = Abs(nat.saldo_original)]
                    ELSE nat]]]

-----------------------------------------------------------------------------
(* The sweeps of the two passes.  A pass threads                           *)
(* st = [ugs, rem, hist, vt, nr, abort]: vt is its local valor_transferir, *)
(* nr its local necessidade_restante, abort is set when it raises.         *)

\* nat.get('necessidade_total', padrao)
GetNecessidade(nat, padrao) ==
    IF nat.necessidade_total # Ausente THEN nat.necessidade_total ELSE padrao

\* nat_deficit['necessidade_total'] = max(0, necessidade_restante)
AtualizarNecessidade(st, rd, necessidade_restante) ==
    [st EXCEPT !.ugs[rd[1]].naturezas[rd[2]].necessidade_total =
                   Max(0, necessidade_restante)]

\* One "for nat_super in doadoras" loop from its i-th donor on: break when
\* the need is covered, skip a donor without capacity, else commit
\* min(need, capacity).  subtrai: whether the loop body holds
\* "necessidade_restante -= valor_transferir" (it does at 471, 626 and 648;
\* the loop of 474-488 does not).
RECURSIVE Varrer(_, _, _, _, _, _, _, _)
Varrer(st, doadoras, i, ug_origem, ug_destino, rd, tipo, subtrai) ==
    IF i > Len(doadoras) \/ st.nr <= EPS THEN st
    ELSE LET capacidade_doacao == calcular_capacidade_doacao(NatAt(st.ugs, doadoras[i]))
         IN  IF capacidade_doacao <= EPS
             THEN Varrer(st, doadoras, i + 1, ug_origem, ug_destino, rd, tipo, subtrai)
             ELSE LET valor == Min(st.nr, capacidade_doacao)
                      s1 == registrar_transferencia(st, ug_origem, doadoras[i],
                                                    ug_destino, rd, valor, tipo)
                      s2 == [s1 EXCEPT !.vt = valor,
                                       !.nr = IF subtrai THEN @ - valor ELSE @]
                  IN  Varrer(s2, doadoras, i + 1, ug_origem, ug_destino, rd, tipo, subtrai)

\* The donors of one deficit: same two digits, then the others, each sorted
\* by saldo_atual, largest first
Prioritarias(ugs, naturezas_super, rd) ==
    LET Mesmos(r) == dois_primeiros_digitos(NatAt(ugs, r)) =
                     dois_primeiros_digitos(NatAt(ugs, rd))
    IN  SortPorSaldo(SelectSeq(naturezas_super, Mesmos), ugs)

Secundarias(ugs, naturezas_super, rd) ==
    LET Outros(r) == dois_primeiros_digitos(NatAt(ugs, r)) #
                     dois_primeiros_digitos(NatAt(ugs, rd))
    IN  SortPorSaldo(SelectSeq(naturezas_super, Outros), ugs)

-----------------------------------------------------------------------------
(* remanejamento_interno *)

\* Variant of DoadoraUnica without the break of line 444: the last donor of
\* the list whose capacity covers the need
DoadoraUnicaSemBreak(ugs, doadoras, necessidade_restante) ==
    LET cobre == {i \in 1..Len(doadoras) :
                    calcular_capacidade_doacao(NatAt(ugs, doadoras[i])) >= necessidade_restante}
    IN  IF ~PRIORIZAR_DOACAO_UNICA \/ cobre = {} THEN <<>>
        ELSE <<doadoras[CHOOSE i \in cobre : \A j \in cobre : i >= j]>>

\* The first donor of the list whose capacity covers the need (lines
\* 437-444); <<>> when there is none
DoadoraUnica(ugs, doadoras, necessidade_restante) ==
    LET cobre == {i \in 1..Len(doadoras) :
                    calcular_capacidade_doacao(NatAt(ugs, doadoras[i])) >= necessidade_restante}
    IN  IF ~PRIORIZAR_DOACAO_UNICA \/ cobre = {} THEN <<>>
        ELSE <<doadoras[CHOOSE i \in cobre : \A j \in cobre : i <= j]>>

\* The body of "for nat_deficit in deficitarias" (lines 418-497)
InternoDeficit(st, u, rd, superavitarias) ==
    LET nat_deficit == NatAt(st.ugs, rd)
        necessidade_restante == GetNecessidade(nat_deficit, Abs(nat_deficit.saldo_atual))
        doadoras_prioritarias == Prioritarias(st.ugs, superavitarias, rd)
        doadoras_secundarias == Secundarias(st.ugs, superavitarias, rd)
        doadora_unica == DoadoraUnica(st.ugs, doadoras_prioritarias \o doadoras_secundarias,
                                      necessidade_restante)
        cod == st.ugs[u].codigo
    IN  IF necessidade_restante <= EPS THEN st
        ELSE IF doadora_unica # <<>>
        THEN AtualizarNecessidade(
                 registrar_transferencia(st, cod, doadora_unica[1], cod, rd,
                                         necessidade_restante, "Interna (unica)"),
                 rd, 0)
        ELSE LET s0 == [st EXCEPT !.nr = necessidade_restante]
                 s1 == Varrer(s0, doadoras_prioritarias, 1, cod, cod, rd,
                              "Interna (mesmos digitos)", TRUE)
                 s2 == Varrer(s1, doadoras_secundarias, 1, cod, cod, rd,
                              "Interna", FALSE)
             IN  \* line 491, after the second loop: valor_transferir is the
                 \* last value assigned in this call, if any
                 IF s2.vt = Unbound THEN [s2 EXCEPT !.abort = TRUE]
                 ELSE AtualizarNecessidade(s2, rd, s2.nr - s2.vt)

RECURSIVE InternoDeficits(_, _, _, _, _)
InternoDeficits(st, u, deficitarias, superavitarias, i) ==
    IF i > Len(deficitarias) \/ st.abort THEN st
    ELSE InternoDeficits(InternoDeficit(st, u, deficitarias[i], superavitarias),
                         u, deficitarias, superavitarias, i + 1)

\* The body of "for ug in self.ugs_dados" (lines 380-497)
InternoUG(st, u) ==
    LET EhDeficitaria(r) == NatAt(st.ugs, r).saldo_atual < 0 /\ Participa(NatAt(st.ugs, r))
        EhSuperavitaria(r) == NatAt(st.ugs, r).saldo_atual > 0 /\ Participa(NatAt(st.ugs, r))
        deficitarias == SelectSeq(RefsDaUG(st.ugs, u), EhDeficitaria)
        superavitarias == SelectSeq(RefsDaUG(st.ugs, u), EhSuperavitaria)
    IN  IF st.ugs[u].fonte = FONTE_PROIBIDA THEN st
        ELSE IF deficitarias = <<>> \/ superavitarias = <<>> THEN st
        ELSE InternoDeficits(st, u, deficitarias, superavitarias, 1)

-----------------------------------------------------------------------------
(* remanejamento_externo *)

\* The list built by lines 509-530: per unit with residual deficits, the
\* unit, its fund and the deficits
DeficitsResiduais(ugs, u) ==
    LET Residual(r) == /\ NatAt(ugs, r).saldo_original < 0
                       /\ GetNecessidade(NatAt(ugs, r), 0) > EPS
                       /\ Participa(NatAt(ugs, r))
    IN  SelectSeq(RefsDaUG(ugs, u), Residual)

RECURSIVE UGsDeficitarias(_, _)
UGsDeficitarias(ugs, u) ==
    IF u > Len(ugs) THEN <<>>
    ELSE IF ugs[u].fonte = FONTE_PROIBIDA \/ DeficitsResiduais(ugs, u) = <<>>
         THEN UGsDeficitarias(ugs, u + 1)
         ELSE <<[ug |-> u, fonte |-> ugs[u].fonte,
                 naturezas_deficit |-> DeficitsResiduais(ugs, u)]>>
              \o UGsDeficitarias(ugs, u + 1)

\* Variant of UGsDoadoras that does not skip the deficitary unit itself
\* (without lines 552-554)
RECURSIVE UGsDoadorasComPropria(_, _, _)
UGsDoadorasComPropria(ugs, info, u) ==
    IF u > Len(ugs) THEN <<>>
    ELSE LET EhSuper(r) == NatAt(ugs, r).saldo_atual > 0 /\ Participa(NatAt(ugs, r))
             naturezas_super == SelectSeq(RefsDaUG(ugs, u), EhSuper)
             saldos == [i \in 1..Len(naturezas_super) |->
                           NatAt(ugs, naturezas_super[i]).saldo_atual]
         IN  IF \/ ugs[u].fonte = FONTE_PROIBIDA
                \/ ugs[u].fonte # info.fonte
                \/ naturezas_super = <<>>
             THEN UGsDoadorasComPropria(ugs, info, u + 1)
             ELSE <<[ug |-> u, superavit_total |-> Soma(saldos),
                     naturezas_super |-> naturezas_super]>>
                  \o UGsDoadorasComPropria(ugs, info, u + 1)

\* The donor units of one deficitary unit (lines 543-570), in parse order
RECURSIVE UGsDoadoras(_, _, _)
UGsDoadoras(ugs, info, u) ==
    IF u > Len(ugs) THEN <<>>
    ELSE LET EhSuper(r) == NatAt(ugs, r).saldo_atual > 0 /\ Participa(NatAt(ugs, r))
             naturezas_super == SelectSeq(RefsDaUG(ugs, u), EhSuper)
             saldos == [i \in 1..Len(naturezas_super) |->
                           NatAt(ugs, naturezas_super[i]).saldo_atual]
         IN  IF \/ ugs[u].fonte = FONTE_PROIBIDA
                \/ ugs[u].fonte # info.fonte
                \/ ugs[u].codigo = ugs[info.ug].codigo
                \/ naturezas_super = <<>>
             THEN UGsDoadoras(ugs, info, u + 1)
             ELSE <<[ug |-> u, superavit_total |-> Soma(saldos),
                     naturezas_super |-> naturezas_super]>>
                  \o UGsDoadoras(ugs, info, u + 1)

\* Variant of ExternoDoadoras whose second loop writes the kind of the first
\* (the literal of line 623 at line 645)
RECURSIVE ExternoDoadorasMesmoTipo(_, _, _, _, _)
ExternoDoadorasMesmoTipo(st, info, ugs_doadoras, k, rd) ==
    IF k > Len(ugs_doadoras) \/ st.nr <= EPS THEN st
    ELSE LET d == ugs_doadoras[k]
             org == st.ugs[d.ug].codigo
             dst == st.ugs[info.ug].codigo
             s1 == Varrer(st, Prioritarias(st.ugs, d.naturezas_super, rd), 1,
                          org, dst, rd, "Externa (mesmos digitos)", TRUE)
             s2 == Varrer(s1, Secundarias(st.ugs, d.naturezas_super, rd), 1,
                          org, dst, rd, "Externa (mesmos digitos)", TRUE)
         IN  ExternoDoadorasMesmoTipo(s2, info, ugs_doadoras, k + 1, rd)

\* "for ug_doadora_info in ugs_doadoras" (lines 593-648)
RECURSIVE ExternoDoadoras(_, _, _, _, _)
ExternoDoadoras(st, info, ugs_doadoras, k, rd) ==
    IF k > Len(ugs_doadoras) \/ st.nr <= EPS THEN st
    ELSE LET d == ugs_doadoras[k]
             org == st.ugs[d.ug].codigo
             dst == st.ugs[info.ug].codigo
             s1 == Varrer(st, Prioritarias(st.ugs, d.naturezas_super, rd), 1,
                          org, dst, rd, "Externa (mesmos digitos)", TRUE)
             s2 == Varrer(s1, Secundarias(st.ugs, d.naturezas_super, rd), 1,
                          org, dst, rd, "Externa", TRUE)
         IN  ExternoDoadoras(s2, info, ugs_doadoras, k + 1, rd)

\* The body of "for nat_deficit in naturezas_deficit" (lines 585-653)
ExternoDeficit(st, info, ugs_doadoras, rd) ==
    LET nat_deficit == NatAt(st.ugs, rd)
        necessidade_restante == GetNecessidade(nat_deficit, Abs(nat_deficit.saldo_atual))
    IN  IF necessidade_restante <= EPS THEN st
        ELSE LET s1 == ExternoDoadoras([st EXCEPT !.nr = necessidade_restante],
                                       info, ugs_doadoras, 1, rd)
             IN  AtualizarNecessidade(s1, rd, s1.nr)

RECURSIVE ExternoDeficits(_, _, _, _)
ExternoDeficits(st, info, ugs_doadoras, i) ==
    IF i > Len(info.naturezas_deficit) THEN st
    ELSE ExternoDeficits(ExternoDeficit(st, info, ugs_doadoras, info.naturezas_deficit[i]),
                         info, ugs_doadoras, i + 1)

\* The body of "for ug_deficit_info in ugs_deficitarias" (lines 538-653)
ExternoUG(st, info) ==
    LET achadas == UGsDoadoras(st.ugs, info, 1)
        ugs_doadoras == SortDesc(achadas, [d \in Range(achadas) |-> d.superavit_total])
    IN  IF achadas = <<>> THEN st
        ELSE ExternoDeficits(st, info, ugs_doadoras, 1)

-----------------------------------------------------------------------------
(* validar_resultado *)

\* tem_negativo after the walk (lines 729-741)
TemNegativo(ugs) ==
    \E r \in TodasRefs(ugs) :
        LET nat == NatAt(ugs, r)
            diferenca == nat.saldo_atual - nat.saldo_original
        IN  /\ Abs(diferenca) > EPS
            /\ nat.saldo_original < 0
            /\ nat.saldo_atual < -EPS

validar_resultado(ugs, rem) ==
    [nenhum_saldo_negativo |-> ~TemNegativo(ugs),
     somas_conferem |-> Len(rem) > 0]

-----------------------------------------------------------------------------
(* gerar_aba_remanejamento and the value processar_arquivo returns *)

\* chave = (Fonte, UG Origem, Natureza Origem, UG Destino, Natureza Destino)
Chave(rem) ==
    <<rem.Fonte, rem.UGOrigem, rem.NaturezaOrigem, rem.UGDestino, rem.NaturezaDestino>>

\* Variant of Consolidar that keeps the amount of the last record of a key
\* ("=" for "+=" at line 856)
RECURSIVE ConsolidarSemSomar(_, _)
ConsolidarSemSomar(rems, consolidados) ==
    IF rems = <<>> THEN consolidados
    ELSE LET rem == Head(rems)
             ja == {k \in 1..Len(consolidados) : Chave(consolidados[k]) = Chave(rem)}
         IN  ConsolidarSemSomar(Tail(rems),
                 IF ja # {}
                 THEN [consolidados EXCEPT ![CHOOSE k \in ja : TRUE].Valor = rem.Valor]
                 ELSE Append(consolidados, rem))

\* "for rem in self.remanejamentos" (lines 845-868): consolidados is the
\* dict, as the list of its values in insertion order
RECURSIVE Consolidar(_, _)
Consolidar(rems, consolidados) ==
    IF rems = <<>> THEN consolidados
    ELSE LET rem == Head(rems)
             ja == {k \in 1..Len(consolidados) : Chave(consolidados[k]) = Chave(rem)}
         IN  Consolidar(Tail(rems),
                 IF ja # {}
                 THEN [consolidados EXCEPT ![CHOOSE k \in ja : TRUE].Valor = @ + rem.Valor]
                 ELSE Append(consolidados, rem))

\* Variant of gerar_aba_remanejamento that does not sum
GerarAbaSemSomar(rems) == ConsolidarSemSomar(rems, <<>>)

\* The rows of the sheet of transfers
gerar_aba_remanejamento(rems) == Consolidar(rems, <<>>)

\* 'deficits' of the returned value (lines 118-129): a row per nature with
\* saldo_original < 0, in ledger order
DeficitsDoResultado(ugs) ==
    LET Negativa(r) == NatAt(ugs, r).saldo_original < 0
        Linha(r) == [UG |-> ugs[r[1]].codigo,
                     Natureza |-> NatAt(ugs, r).codigo,
                     NaturezaNome |-> NatAt(ugs, r).nome,
                     Deficit |-> Abs(NatAt(ugs, r).saldo_original)]
        DaUG(u) == LET rs == SelectSeq(RefsDaUG(ugs, u), Negativa)
                   IN  [i \in 1..Len(rs) |-> Linha(rs[i])]
        Ate[u \in 0..Len(ugs)] == IF u = 0 THEN <<>> ELSE Ate[u - 1] \o DaUG(u)
    IN  Ate[Len(ugs)]

\* The dict of lines 111-134, with the sheet of transfers for arquivo_excel
Resultado(ugs, rems, deficits_totais, vals) ==
    [estatisticas |->
        [total_ugs |-> Len(ugs),
         total_deficits |-> deficits_totais,
         remanejamentos_internos |->
            Cardinality({i \in 1..Len(rems) : rems[i].UGOrigem = rems[i].UGDestino}),
         remanejamentos_externos |->
            Cardinality({i \in 1..Len(rems) : rems[i].UGOrigem # rems[i].UGDestino})],
     deficits |-> DeficitsDoResultado(ugs),
     remanejamentos |-> rems,
     validacoes |-> vals,
     aba_remanejamento |-> gerar_aba_remanejamento(rems)]

-----------------------------------------------------------------------------
(* The ledgers of Init: what identificar_estrutura builds from the rows of *)
(* a sheet.                                                                *)

\* Nature rows (code, fund cell, balance cell in thousandths, whole cents);
\* fonte 0: no fund cell
LinhasNatureza ==
    {[codigo |-> 319011, fonte |-> 0, saldo |-> 1010],
     [codigo |-> 339018, fonte |-> 0, saldo |-> 1010],
     [codigo |-> 319011, fonte |-> 0, saldo |-> -500],
     [codigo |-> 339018, fonte |-> 0, saldo |-> -100],
     [codigo |-> 319011, fonte |-> 0, saldo |-> 10],
     [codigo |-> 339018, fonte |-> 0, saldo |-> 0],
     [codigo |-> 319011, fonte |-> 761, saldo |-> 1010]}

\* Fund cells of a unit row
FontesUG == {0, 500, 761}

\* The configurations of a run
Configuracoes ==
    {[fonte_proibida |-> 761, naturezas_proibidas |-> {}],
     [fonte_proibida |-> None, naturezas_proibidas |-> {}],
     [fonte_proibida |-> 761, naturezas_proibidas |-> {339018}]}

\* natureza = {...} of lines 237-246: the fund is the row's when > 0, else
\* the unit's; nome is the text of the row's name cell
NaturezaLida(linha, fonte_ug, nome) ==
    [codigo |-> linha.codigo,
     nome |-> nome,
     fonte |-> IF linha.fonte > 0 THEN linha.fonte ELSE fonte_ug,
     saldo_original |-> linha.saldo,
     saldo_atual |-> linha.saldo,
     necessidade_total |-> Ausente]

\* The name cell of the n-th nature row of a unit: every row of a unit has
\* its own text
NomeDaLinha == <<"Nat A", "Nat B", "Nat C", "Nat D">>

\* ug_atual = {...} of lines 215-223, with the natures that follow it
UGLida(codigo, fonte, linhas) ==
    [codigo |-> codigo,
     fonte |-> IF fonte > 0 THEN fonte ELSE None,
     naturezas |-> [n \in 1..Len(linhas) |->
                       NaturezaLida(linhas[n], fonte, NomeDaLinha[n])]]

SeqsAte(S, n) == UNION {[1..k -> S] : k \in 1..n}

\* Ledgers of 1..maxugs units of 1..maxnat natures; unit u has code 450200 + u
LedgersDe(linhas, fontes, maxnat, maxugs) ==
    {[u \in 1..Len(fs) |-> UGLida(450200 + u, fs[u][1], fs[u][2])] :
        fs \in SeqsAte(fontes \X SeqsAte(linhas, maxnat), maxugs)}

LedgersAte(linhas, fontes, maxnat) == LedgersDe(linhas, fontes, maxnat, MaxUGs)

Ledgers(linhas, fontes) == LedgersAte(linhas, fontes, MaxNat)

InitCom(ledger, cfg) ==
    /\ FONTE_PROIBIDA = cfg.fonte_proibida
    /\ NATUREZAS_PROIBIDAS = cfg.naturezas_proibidas
    /\ ugs_dados = ledger
    /\ remanejamentos = <<>>
    /\ hist = <<>>
    /\ valor_transferir = Unbound
    /\ pc = "identificar"
    /\ iu = 1
    /\ ugs_deficitarias = <<>>
    /\ total_deficits = 0
    /\ validacoes = <<>>
    /\ resultado = <<>>
    /\ chamada = [n |-> 0]

Init == \E cfg \in Configuracoes, ledger \in Ledgers(LinhasNatureza, FontesUG) :
            InitCom(ledger, cfg)

-----------------------------------------------------------------------------
(* processar_arquivo, steps 3 to 6.  One action per scan, per iteration of *)
(* the unit loop of a pass, and per validation.                            *)

Estado == [ugs |-> ugs_dados, rem |-> remanejamentos, hist |-> hist,
           vt |-> valor_transferir, nr |-> 0, abort |-> FALSE]

\* deficits_totais = self.identificar_deficits()
IdentificarDeficits ==
    /\ pc = "identificar"
    /\ ugs_dados' = identificar_deficits(ugs_dados)
    /\ total_deficits' = Cardinality(DeficitsIdentificados(ugs_dados))
    /\ pc' = "interno"
    /\ iu' = 1
    /\ UNCHANGED <<FONTE_PROIBIDA, NATUREZAS_PROIBIDAS, remanejamentos, hist,
                   valor_transferir, ugs_deficitarias, validacoes, resultado,
                   chamada>>

\* One unit of remanejamento_interno; the UnboundLocalError of line 491
\* leaves the run in "erro" (app.py catches it and shows no result)
RemanejamentoInternoUG ==
    /\ pc = "interno"
    /\ iu <= Len(ugs_dados)
    /\ LET s == InternoUG(Estado, iu)
       IN  /\ ugs_dados' = s.ugs
           /\ remanejamentos' = s.rem
           /\ hist' = s.hist
           /\ valor_transferir' = s.vt
           /\ pc' = IF s.abort THEN "erro" ELSE "interno"
           /\ iu' = IF s.abort THEN iu ELSE iu + 1
    /\ UNCHANGED <<FONTE_PROIBIDA, NATUREZAS_PROIBIDAS, ugs_deficitarias,
                   total_deficits, validacoes, resultado, chamada>>

\* remanejamento_interno returns; remanejamento_externo builds its list
RemanejamentoExternoInicio ==
    /\ pc = "interno"
    /\ iu > Len(ugs_dados)
    /\ ugs_deficitarias' = UGsDeficitarias(ugs_dados, 1)
    /\ valor_transferir' = Unbound
    /\ pc' = "externo"
    /\ iu' = 1
    /\ UNCHANGED <<FONTE_PROIBIDA, NATUREZAS_PROIBIDAS, ugs_dados, remanejamentos,
                   hist, total_deficits, validacoes, resultado, chamada>>

\* One deficitary unit of remanejamento_externo
RemanejamentoExternoUG ==
    /\ pc = "externo"
    /\ iu <= Len(ugs_deficitarias)
    /\ LET s == ExternoUG(Estado, ugs_deficitarias[iu])
       IN  /\ ugs_dados' = s.ugs
           /\ remanejamentos' = s.rem
           /\ hist' = s.hist
    /\ iu' = iu + 1
    /\ UNCHANGED <<FONTE_PROIBIDA, NATUREZAS_PROIBIDAS, valor_transferir, pc,
                   ugs_deficitarias, total_deficits, validacoes, resultado,
                   chamada>>

\* validacoes = self.validar_resultado()
ValidarResultado ==
    /\ pc = "externo"
    /\ iu > Len(ugs_deficitarias)
    /\ validacoes' = validar_resultado(ugs_dados, remanejamentos)
    /\ pc' = "fim"
    /\ UNCHANGED <<FONTE_PROIBIDA, NATUREZAS_PROIBIDAS, ugs_dados, remanejamentos,
                   hist, valor_transferir, iu, ugs_deficitarias, total_deficits,
                   resultado, chamada>>

\* arquivo_excel = self.gerar_excel() and the return
GerarExcel ==
    /\ pc = "fim"
    /\ resultado' = Resultado(ugs_dados, remanejamentos, total_deficits, validacoes)
    /\ pc' = "retornado"
    /\ UNCHANGED <<FONTE_PROIBIDA, NATUREZAS_PROIBIDAS, ugs_dados, remanejamentos,
                   hist, valor_transferir, iu, ugs_deficitarias, total_deficits,
                   validacoes, chamada>>

Next ==
    \/ IdentificarDeficits
    \/ RemanejamentoInternoUG
    \/ RemanejamentoExternoInicio
    \/ RemanejamentoExternoUG
    \/ ValidarResultado
    \/ GerarExcel

Spec == Init /\ [][Next]_vars

-----------------------------------------------------------------------------
(* The run on units of up to MaxNatTres natures of one fund: several       *)
(* donors for one deficit, of the same two digits or not, of different     *)
(* balances.                                                               *)

\* Nature rows of the ledgers of InitTres.  The balances are whole currency
\* units (1000.00, 100.00, 1010.00, 2020.00), on which the floating-point
\* sums and differences of the code are exact: two donors whose balances
\* are equal here are equal in the code too, and its stable sort keeps them
\* in list order.
LinhasTres ==
    {[codigo |-> 319011, fonte |-> 0, saldo |-> -1000000],
     [codigo |-> 339018, fonte |-> 0, saldo |-> -100000],
     [codigo |-> 319011, fonte |-> 0, saldo |-> 1010000],
     [codigo |-> 339018, fonte |-> 0, saldo |-> 1010000],
     [codigo |-> 339030, fonte |-> 0, saldo |-> 2020000]}

InitTres ==
    \E ledger \in LedgersAte(LinhasTres, {500}, MaxNatTres) :
        InitCom(ledger, [fonte_proibida |-> 761, naturezas_proibidas |-> {}])

SpecTres == InitTres /\ [][Next]_vars

-----------------------------------------------------------------------------
(* The run on up to MaxUGsExterno units of one fund: several donor units   *)
(* for one deficitary unit.                                                *)

\* Nature rows of the ledgers of InitExterno, in whole currency units
LinhasExterno ==
    {[codigo |-> 319011, fonte |-> 0, saldo |-> -1000000],
     [codigo |-> 339018, fonte |-> 0, saldo |-> -100000],
     [codigo |-> 319011, fonte |-> 0, saldo |-> 1010000],
     [codigo |-> 339018, fonte |-> 0, saldo |-> 2020000]}

InitExterno ==
    \E ledger \in LedgersDe(LinhasExterno, {500}, MaxNat, MaxUGsExterno) :
        InitCom(ledger, [fonte_proibida |-> 761, naturezas_proibidas |-> {}])

SpecExterno == InitExterno /\ [][Next]_vars

-----------------------------------------------------------------------------
(* registrar_transferencia called directly, with any two natures of the    *)
(* ledger and any amount: the commit operation by itself.                  *)

\* Nature rows of the ledgers of InitRegistrar
LinhasRegistrar ==
    {[codigo |-> 319011, fonte |-> 0, saldo |-> 1010],
     [codigo |-> 339018, fonte |-> 0, saldo |-> -500],
     [codigo |-> 339030, fonte |-> 0, saldo |-> 0]}

\* Configurations of InitRegistrar: a prohibited source code, a prohibited
\* destination code, none
ConfiguracoesRegistrar ==
    {[fonte_proibida |-> 761, naturezas_proibidas |-> np] :
        np \in {{}, {319011}, {339018}}}

\* Amounts of a direct call, in thousandths: negative, within the reserve,
\* beyond the reserve, beyond the balance
ValoresChamada == {-100, 404, 908, 2000}

InitRegistrar ==
    \E cfg \in ConfiguracoesRegistrar, ledger \in Ledgers(LinhasRegistrar, {500}) :
        InitCom(ledger, cfg)

\* self.registrar_transferencia(ug_origem, nat_origem, ug_destino, nat_destino, valor, tipo)
RegistrarDireto ==
    /\ chamada.n < MaxChamadas
    /\ \E ro \in TodasRefs(ugs_dados), rd \in TodasRefs(ugs_dados), valor \in ValoresChamada :
        LET s == registrar_transferencia(Estado, ugs_dados[ro[1]].codigo, ro,
                                         ugs_dados[rd[1]].codigo, rd, valor,
                                         IF ro[1] = rd[1] THEN "Interna" ELSE "Externa")
        IN  /\ ugs_dados' = s.ugs
            /\ remanejamentos' = s.rem
            /\ hist' = s.hist
            /\ chamada' = [n |-> chamada.n + 1, origem |-> ro, destino |-> rd,
                           valor |-> valor]
    /\ UNCHANGED <<FONTE_PROIBIDA, NATUREZAS_PROIBIDAS, valor_transferir, pc, iu,
                   ugs_deficitarias, total_deficits, validacoes, resultado>>

SpecRegistrar == InitRegistrar /\ [][RegistrarDireto]_vars

-----------------------------------------------------------------------------
(* calcular_capacidade_doacao called directly on a nature in any state a   *)
(* run can leave it in.                                                    *)

\* saldo_original of the nature (whole cents, in thousandths)
SaldosOriginaisCapacidade == {-1000, -500, -100, 0, 10, 50, 1010, 2020, 5000}

\* saldo_atual of the nature
SaldosAtuaisCapacidade ==
    {-1000, -500, -300, -100, -96, 0, 2, 8, 10, 20, 50, 100, 202, 212, 404, 500,
     606, 808, 1000, 1010, 1212, 2020, 4000, 5000}

\* The states of a nature in a run: a surplus nature only donates and never
\* goes below its reserve (lines 672-677), a deficit nature only receives
\* (lines 658-664), a nature of balance 0 does neither
EstadoDeNatureza(saldo_original, saldo_atual) ==
    IF saldo_original > 0
    THEN 100 * saldo_atual >= PERCENTUAL_RESERVA_MINIMA * saldo_original
         /\ saldo_atual <= saldo_original
    ELSE IF saldo_original < 0
    THEN saldo_atual >= saldo_original /\ saldo_atual <= 0 - saldo_original
    ELSE saldo_atual = 0

InitCapacidade ==
    \E saldo_original \in SaldosOriginaisCapacidade, saldo_atual \in SaldosAtuaisCapacidade :
        /\ EstadoDeNatureza(saldo_original, saldo_atual)
        /\ LET linha == [codigo |-> 319011, fonte |-> 0, saldo |-> saldo_original]
               ug == UGLida(450201, 500, <<linha>>)
           IN  InitCom(<<[ug EXCEPT !.naturezas[1].saldo_atual = saldo_atual]>>,
                       [fonte_proibida |-> 761, naturezas_proibidas |-> {}])

\* self.calcular_capacidade_doacao(natureza)
CalcularCapacidade ==
    /\ chamada.n = 0
    /\ \E r \in TodasRefs(ugs_dados) :
          chamada' = [n |-> 1, natureza |-> r,
                      capacidade |-> calcular_capacidade_doacao(NatAt(ugs_dados, r))]
    /\ UNCHANGED <<FONTE_PROIBIDA, NATUREZAS_PROIBIDAS, ugs_dados, remanejamentos,
                   hist, valor_transferir, pc, iu, ugs_deficitarias, total_deficits,
                   validacoes, resultado>>

SpecCapacidade == InitCapacidade /\ [][CalcularCapacidade]_vars

-----------------------------------------------------------------------------
(* Vocabulary of the properties *)

Refs == TodasRefs(ugs_dados)

NatDe(r) == NatAt(ugs_dados, r)

Commits == 1..Len(hist)

\* Unrounded amount nature r has donated, and received, so far
Doado(r) ==
    Soma([i \in Commits |-> IF hist[i].origem = r THEN hist[i].valor ELSE 0])

Recebido(r) ==
    Soma([i \in Commits |-> IF hist[i].destino = r THEN hist[i].valor ELSE 0])

\* The same sums over the amounts stored in the TransferRecords
DoadoRegistrado(r) ==
    Soma([i \in Commits |-> IF hist[i].origem = r THEN remanejamentos[i].Valor ELSE 0])

RecebidoRegistrado(r) ==
    Soma([i \in Commits |-> IF hist[i].destino = r THEN remanejamentos[i].Valor ELSE 0])

EhInterna(i) == hist[i].origem[1] = hist[i].destino[1]

\* Excluded from the run: a prohibited code, the prohibited fund, or a unit
\* of the prohibited fund
Excluida(r) ==
    \/ NatDe(r).codigo \in NATUREZAS_PROIBIDAS
    \/ NatDe(r).fonte = FONTE_PROIBIDA
    \/ ugs_dados[r[1]].fonte = FONTE_PROIBIDA

-----------------------------------------------------------------------------
(* C1: every nature with saldo_original > 0 keeps saldo_atual >= 20% of    *)
(* saldo_original in every state of a run; equivalently what it has        *)
(* donated so far never exceeds 80% of saldo_original.                     *)
C1_ReservaPreservada ==
    \A r \in Refs :
        NatDe(r).saldo_original > 0 =>
            /\ 100 * NatDe(r).saldo_atual >= 20 * NatDe(r).saldo_original
            /\ 100 * Doado(r) <= 80 * NatDe(r).saldo_original

\* A donor that gave once inside its unit and once to another unit and now
\* sits exactly on its reserve
C1_Witness ==
    \E r \in Refs :
        /\ NatDe(r).saldo_original > 0
        /\ 100 * NatDe(r).saldo_atual = 20 * NatDe(r).saldo_original
        /\ \E i \in Commits : hist[i].origem = r /\ EhInterna(i)
        /\ \E j \in Commits : hist[j].origem = r /\ ~EhInterna(j)

-----------------------------------------------------------------------------
(* C2: every committed transfer has a source with saldo_original > 0 and a *)
(* destination with saldo_original < 0; a nature that started at 0 is      *)
(* never a source nor a destination.  Checked on the commit operation      *)
(* called with any two natures.                                            *)
C2_OrigemPositivaDestinoNegativo ==
    \A i \in Commits :
        /\ NatDe(hist[i].origem).saldo_original > 0
        /\ NatDe(hist[i].destino).saldo_original < 0

\* After a committed call, a call towards a nature that started at 0 has
\* been made (and refused)
C2_Witness ==
    /\ chamada.n = 2
    /\ Len(hist) = 1
    /\ NatDe(chamada.origem).saldo_original > 0
    /\ NatDe(chamada.destino).saldo_original = 0
    /\ chamada.valor = 404

-----------------------------------------------------------------------------
(* C3: no committed transfer is larger than 40% of its source's            *)
(* saldo_original, the single-donor transfer included.                     *)
C3_LimitePorOperacao ==
    \A i \in Commits :
        100 * hist[i].valor <= 40 * NatDe(hist[i].origem).saldo_original

\* A single-donor transfer and a swept transfer of exactly 40% have been
\* committed
C3_Witness ==
    /\ \E i \in Commits : remanejamentos[i].Tipo = "Interna (unica)"
    /\ \E j \in Commits :
        /\ remanejamentos[j].Tipo # "Interna (unica)"
        /\ 100 * hist[j].valor = 40 * NatDe(hist[j].origem).saldo_original

-----------------------------------------------------------------------------
(* C4: a nature with a prohibited code, on the prohibited fund, or in a    *)
(* unit of the prohibited fund is never the source or destination of a     *)
(* committed transfer, and ends the run with saldo_atual = saldo_original. *)
C4_ExcluidasIntocadas ==
    /\ \A i \in Commits : ~Excluida(hist[i].origem) /\ ~Excluida(hist[i].destino)
    /\ \A r \in Refs : Excluida(r) => NatDe(r).saldo_atual = NatDe(r).saldo_original

\* The run ended with a transfer committed beside an excluded surplus
\* nature on the prohibited fund, in a unit that is not
C4_Witness ==
    /\ pc = "fim"
    /\ Len(hist) > 0
    /\ FONTE_PROIBIDA # None
    /\ \E r \in Refs :
        /\ NatDe(r).fonte = FONTE_PROIBIDA
        /\ ugs_dados[r[1]].fonte # FONTE_PROIBIDA
        /\ NatDe(r).saldo_original > 0
        /\ \E i \in Commits : hist[i].destino[1] = r[1]

-----------------------------------------------------------------------------
(* C5: at the end of the run every nature's saldo_atual is saldo_original  *)
(* plus the recorded amounts it received minus the recorded amounts it     *)
(* donated, exactly.                                                       *)
C5_SaldoIgualRegistros ==
    pc = "fim" =>
        \A r \in Refs :
            NatDe(r).saldo_atual =
                NatDe(r).saldo_original + RecebidoRegistrado(r) - DoadoRegistrado(r)

-----------------------------------------------------------------------------
(* C6: once a pass has processed a deficit nature, its necessidade_total   *)
(* is max(0, |saldo_original| - amount committed to it so far).            *)
C6_NecessidadeResidual ==
    pc \in {"interno", "externo", "fim"} =>
        \A r \in Refs :
            NatDe(r).necessidade_total # Ausente =>
                NatDe(r).necessidade_total =
                    Max(0, Abs(NatDe(r).saldo_original) - Recebido(r))

-----------------------------------------------------------------------------
(* C7: the internal pass never aborts the run.                             *)
C7_InternoNaoAborta == pc # "erro"

-----------------------------------------------------------------------------
(* C8: nenhum_saldo_negativo is true exactly when no nature has            *)
(* saldo_original < 0 and saldo_atual < -0.01.                             *)
C8_NenhumSaldoNegativo ==
    pc = "fim" =>
        (validacoes.nenhum_saldo_negativo <=>
            ~\E r \in Refs : NatDe(r).saldo_original < 0 /\ NatDe(r).saldo_atual < -10)

-----------------------------------------------------------------------------
(* C9: a call of registrar_transferencia for which a rejection condition   *)
(* holds leaves the balances and the transfer list unchanged; a call for   *)
(* which none holds commits: one more record, the amount moved from the    *)
(* source to the destination.                                              *)

\* The rejection conditions as the claim lists them, on the ledger before
\* the call
C9_Condicao(ugs, ro, rd, valor) ==
    \/ NatAt(ugs, ro).saldo_original <= 0
    \/ NatAt(ugs, rd).saldo_original >= 0
    \/ valor > NatAt(ugs, ro).saldo_atual
    \/ 100 * (NatAt(ugs, ro).saldo_atual - valor) < 20 * NatAt(ugs, ro).saldo_original
    \/ NatAt(ugs, ro).codigo \in NATUREZAS_PROIBIDAS
    \/ NatAt(ugs, rd).codigo \in NATUREZAS_PROIBIDAS

C9_RejeitaOuEfetiva ==
    [][chamada'.n # chamada.n =>
        LET ro == chamada'.origem
            rd == chamada'.destino
            valor == chamada'.valor
        IN  IF C9_Condicao(ugs_dados, ro, rd, valor)
            THEN UNCHANGED <<ugs_dados, remanejamentos>>
            ELSE /\ Len(remanejamentos') = Len(remanejamentos) + 1
                 /\ NatAt(ugs_dados', ro).saldo_atual = NatAt(ugs_dados, ro).saldo_atual - valor
                 /\ NatAt(ugs_dados', rd).saldo_atual = NatAt(ugs_dados, rd).saldo_atual + valor
                 /\ \A r \in Refs \ {ro, rd} : NatAt(ugs_dados', r) = NatAt(ugs_dados, r)]_vars

\* A call that would breach the reserve was refused after a committed call,
\* which left the list and the balances as the first call had set them
C9_Witness ==
    /\ chamada.n = 2
    /\ Len(hist) = 1
    /\ hist[1].valor = 404
    /\ chamada.origem = hist[1].origem
    /\ chamada.destino = hist[1].destino
    /\ chamada.valor = 908

-----------------------------------------------------------------------------
-----------------------------------------------------------------------------
(* C11: right after the scan, the natures that carry a necessidade_total   *)
(* are exactly those with saldo_original < 0, in a unit that is not of the *)
(* configured prohibited fund, not on that fund themselves, and without a  *)
(* prohibited code; the necessity is |saldo_original| and the count        *)
(* returned is their number.  With no prohibited fund configured nothing   *)
(* is excluded on fund grounds.                                            *)
C11_EhDeficit(r) ==
    /\ NatDe(r).saldo_original < 0
    /\ FONTE_PROIBIDA # None =>
          /\ ugs_dados[r[1]].fonte # FONTE_PROIBIDA
          /\ NatDe(r).fonte # FONTE_PROIBIDA
    /\ NatDe(r).codigo \notin NATUREZAS_PROIBIDAS

C11_ExatamenteOsDeficits ==
    (pc = "interno" /\ iu = 1) =>
        /\ \A r \in Refs :
              NatDe(r).necessidade_total =
                  IF C11_EhDeficit(r) THEN Abs(NatDe(r).saldo_original) ELSE Ausente
        /\ total_deficits = Cardinality({r \in Refs : C11_EhDeficit(r)})

-----------------------------------------------------------------------------
(* C12: the deficit list of the returned value holds exactly the natures   *)
(* the scan recorded as deficits, each with |saldo_original|, so its       *)
(* length is the total_deficits statistic of the same value.               *)
C12_ListaDeDeficits ==
    pc = "retornado" =>
        /\ Len(resultado.deficits) = resultado.estatisticas.total_deficits
        /\ {<<d.UG, d.Natureza, d.NaturezaNome, d.Deficit>> :
                d \in {resultado.deficits[i] : i \in 1..Len(resultado.deficits)}}
           = {<<ugs_dados[r[1]].codigo, NatDe(r).codigo, NatDe(r).nome,
                Abs(NatDe(r).saldo_original)>> :
                r \in {x \in Refs : NatDe(x).necessidade_total # Ausente}}

-----------------------------------------------------------------------------
(* C13: the consolidated sheet holds, for every key (Fonte, UG Origem,     *)
(* Natureza Origem, UG Destino, Natureza Destino) of a committed record,   *)
(* exactly one row; its Valor is the sum of the Valor of the committed     *)
(* records of that key, its Tipo and names are those of the first of them; *)
(* it has no more rows than there are committed records; building it       *)
(* leaves the committed records and the ledger unchanged.                  *)
C13_Chave(x) == <<x.Fonte, x.UGOrigem, x.NaturezaOrigem, x.UGDestino, x.NaturezaDestino>>

C13_Consolidado(aba, rems) ==
    /\ Len(aba) <= Len(rems)
    /\ \A i \in 1..Len(rems) :
          Cardinality({k \in 1..Len(aba) : C13_Chave(aba[k]) = C13_Chave(rems[i])}) = 1
    /\ \A k \in 1..Len(aba) :
          LET iguais == {i \in 1..Len(rems) : C13_Chave(rems[i]) = C13_Chave(aba[k])}
          IN  /\ iguais # {}
              /\ aba[k].Valor =
                    Soma([i \in 1..Len(rems) |-> IF i \in iguais THEN rems[i].Valor ELSE 0])
              /\ LET primeiro == CHOOSE i \in iguais : \A j \in iguais : i <= j
                 IN  /\ aba[k].Tipo = rems[primeiro].Tipo
                     /\ aba[k].NomeNaturezaOrigem = rems[primeiro].NomeNaturezaOrigem
                     /\ aba[k].NomeNaturezaDestino = rems[primeiro].NomeNaturezaDestino

C13_ConsolidacaoPreservaSoma ==
    [][(pc = "fim" /\ pc' = "retornado") =>
          /\ C13_Consolidado(resultado'.aba_remanejamento, remanejamentos)
          /\ UNCHANGED <<ugs_dados, remanejamentos>>]_vars

\* A returned value whose sheet merged two committed records of one key and
\* kept a row of another key
C13_Witness ==
    /\ pc = "retornado"
    /\ Len(resultado.aba_remanejamento) >= 2
    /\ Len(resultado.aba_remanejamento) < Len(remanejamentos)

-----------------------------------------------------------------------------
(* C14: no step changes a saldo_original; a step changes the saldo_atual   *)
(* of a nature by exactly what the transfers committed in that step moved  *)
(* into and out of it; the scan, the start of the external pass, the       *)
(* validation and the building of the returned value commit nothing and    *)
(* leave every saldo_atual unchanged.                                      *)
C14_Novos == (Len(hist) + 1)..Len(hist')

C14_SoEfetivacaoMoveSaldo ==
    [][/\ Len(hist') >= Len(hist)
       /\ SubSeq(hist', 1, Len(hist)) = hist
       /\ \A r \in Refs :
             /\ NatAt(ugs_dados', r).saldo_original = NatDe(r).saldo_original
             /\ NatAt(ugs_dados', r).saldo_atual =
                   NatDe(r).saldo_atual
                   + Soma([i \in 1..Len(hist') |->
                            IF i \in C14_Novos /\ hist'[i].destino = r
                            THEN hist'[i].valor ELSE 0])
                   - Soma([i \in 1..Len(hist') |->
                            IF i \in C14_Novos /\ hist'[i].origem = r
                            THEN hist'[i].valor ELSE 0])
       /\ (\/ pc = "identificar"
           \/ (pc = "interno" /\ pc' = "externo")
           \/ pc' = "fim"
           \/ pc' = "retornado") => C14_Novos = {}]_vars

\* A returned run that committed internal and external transfers and left a
\* nature that took part in none with the balance it started with
C14_Witness ==
    /\ pc = "retornado"
    /\ \E i \in Commits : EhInterna(i)
    /\ \E j \in Commits : ~EhInterna(j)
    /\ \E r \in Refs :
          /\ \A i \in Commits : hist[i].origem # r /\ hist[i].destino # r
          /\ NatDe(r).saldo_original > 0
          /\ NatDe(r).saldo_atual = NatDe(r).saldo_original

-----------------------------------------------------------------------------
(* Vocabulary of the properties on the order of donors *)

\* Nature s has the two first digits of nature d
MesmoPrefixo(s, d) == NatDe(s).codigo \div 10000 = NatDe(d).codigo \div 10000

\* Balance of nature s just before the i-th committed transfer
SaldoAntes(s, i) ==
    NatDe(s).saldo_original
    - Soma([m \in Commits |-> IF m < i /\ hist[m].origem = s THEN hist[m].valor ELSE 0])
    + Soma([m \in Commits |-> IF m < i /\ hist[m].destino = s THEN hist[m].valor ELSE 0])

-----------------------------------------------------------------------------
(* C16: when the internal pass processes a deficit nature with need > 0.01 *)
(* and some eligible surplus nature of its unit has capacity >= the need,  *)
(* exactly one transfer is committed for it: of the full need, of kind     *)
(* "Interna (unica)", from a donor with sufficient capacity that no other  *)
(* sufficient donor precedes (same two digits first, then larger balance), *)
(* and its necessidade_total becomes 0.                                    *)
C16_DaUnidade ==
    LET novos == (Len(hist) + 1)..Len(hist')
        Eleg(r) == r[1] = iu /\ ~Excluida(r)
        defs == {r \in Refs : Eleg(r) /\ NatDe(r).saldo_atual < 0}
        sups == {r \in Refs : Eleg(r) /\ NatDe(r).saldo_atual > 0}
        \* the transfers of this step committed for the deficits before d
        Antes(d) == {k \in novos : hist'[k].destino[2] < d[2]}
        SaldoAo(x, d) ==
            NatDe(x).saldo_atual
            - Soma([k \in 1..Len(hist') |->
                      IF k \in Antes(d) /\ hist'[k].origem = x THEN hist'[k].valor ELSE 0])
        Cap(x, d) == calcular_capacidade_doacao([NatDe(x) EXCEPT !.saldo_atual = SaldoAo(x, d)])
        Nec(d) == IF NatDe(d).necessidade_total # Ausente
                  THEN NatDe(d).necessidade_total ELSE Abs(NatDe(d).saldo_atual)
        Suf(d) == {x \in sups : Cap(x, d) >= Nec(d)}
        Precede(a, b, d) ==
            \/ MesmoPrefixo(a, d) /\ ~MesmoPrefixo(b, d)
            \/ (MesmoPrefixo(a, d) <=> MesmoPrefixo(b, d)) /\ SaldoAo(a, d) > SaldoAo(b, d)
        \* the pass reached d: it did not abort on a deficit before it
        Processada(d) ==
            \/ pc' # "erro"
            \/ \A e \in defs : e[2] < d[2] => (Nec(e) <= EPS \/ Suf(e) # {})
    IN  \A d \in defs :
            (Nec(d) > EPS /\ Suf(d) # {} /\ Processada(d)) =>
                LET ks == {k \in novos : hist'[k].destino = d}
                IN  /\ Cardinality(ks) = 1
                    /\ \A k \in ks :
                          /\ hist'[k].valor = Nec(d)
                          /\ remanejamentos'[k].Tipo = "Interna (unica)"
                          /\ hist'[k].origem \in Suf(d)
                          /\ \A x \in Suf(d) : ~Precede(x, hist'[k].origem, d)
                    /\ NatAt(ugs_dados', d).necessidade_total = 0

C16_DoadoraUnicaCobreTudo ==
    [][(pc = "interno" /\ iu <= Len(ugs_dados) /\ ugs_dados[iu].fonte # FONTE_PROIBIDA)
          => C16_DaUnidade]_vars

\* A single-donor transfer from a donor of the same two digits, taken
\* although a donor of other digits that could cover the need too, and has
\* not given anything, comes before it in the unit
C16_Witness ==
    \E k \in Commits :
        /\ remanejamentos[k].Tipo = "Interna (unica)"
        /\ MesmoPrefixo(hist[k].origem, hist[k].destino)
        /\ \E x \in Refs :
              /\ x[1] = hist[k].origem[1]
              /\ x[2] < hist[k].origem[2]
              /\ ~MesmoPrefixo(x, hist[k].destino)
              /\ 100 * hist[k].valor <= 40 * NatDe(x).saldo_original
              /\ \A i \in Commits : hist[i].origem # x

-----------------------------------------------------------------------------
(* C17: a nature with saldo_original < 0 never receives more than its      *)
(* deficit: its saldo_atual is <= 0 in every state of a run.               *)
C17_NuncaRecebeDemais ==
    \A r \in Refs : NatDe(r).saldo_original < 0 => NatDe(r).saldo_atual <= 0

-----------------------------------------------------------------------------
(* C18: at the end of the run, a deficit nature that is not excluded and   *)
(* is left with saldo_atual < -0.01 has no eligible surplus nature, in its *)
(* unit or in another unit of the same fund, with capacity above 0.01.     *)
C18_DoadorasEsgotadas ==
    pc = "fim" =>
        \A d \in Refs :
            (NatDe(d).saldo_original < 0 /\ ~Excluida(d) /\ NatDe(d).saldo_atual < -EPS) =>
                \A x \in Refs :
                    (/\ ~Excluida(x)
                     /\ NatDe(x).saldo_atual > 0
                     /\ x[1] = d[1] \/ ugs_dados[x[1]].fonte = ugs_dados[d[1]].fonte)
                        => calcular_capacidade_doacao(NatDe(x)) <= EPS

-----------------------------------------------------------------------------
(* C19: an external transfer is committed only after the internal pass has *)
(* finished; its destination was still deficitary (saldo_original < 0 and  *)
(* saldo_atual < 0) when the external pass began, that is after the        *)
(* internal transfers; in the list every internal record precedes every    *)
(* external one.                                                           *)
C19_RecebidoInterno(d) ==
    Soma([k \in Commits |-> IF EhInterna(k) /\ hist[k].destino = d THEN hist[k].valor ELSE 0])

C19_InternoAntesDoExterno ==
    /\ (\E i \in Commits : ~EhInterna(i)) => pc \in {"externo", "fim", "retornado"}
    /\ \A i \in Commits :
          ~EhInterna(i) =>
              /\ NatDe(hist[i].destino).saldo_original < 0
              /\ NatDe(hist[i].destino).saldo_original + C19_RecebidoInterno(hist[i].destino) < 0
    /\ \A i \in Commits, j \in Commits : (i < j /\ EhInterna(j)) => EhInterna(i)

-----------------------------------------------------------------------------
(* C20: among the swept transfers one deficit nature receives from one     *)
(* unit, those from donors of its two digits come before those from other  *)
(* donors, and inside each group the donors come in non-increasing order   *)
(* of the balance they had when the sweep began.                           *)
C20_Varrida(i) == remanejamentos[i].Tipo # "Interna (unica)"

C20_MesmaVarredura(i, j) ==
    /\ C20_Varrida(i) /\ C20_Varrida(j)
    /\ hist[i].destino = hist[j].destino
    /\ hist[i].origem[1] = hist[j].origem[1]

C20_OrdemDasDoadoras ==
    \A i \in Commits, j \in Commits :
        (i < j /\ C20_MesmaVarredura(i, j)) =>
            LET d == hist[i].destino
                inicio == CHOOSE k \in Commits :
                              /\ C20_MesmaVarredura(k, i)
                              /\ \A m \in Commits : C20_MesmaVarredura(m, i) => k <= m
                a == hist[i].origem
                b == hist[j].origem
            IN  /\ MesmoPrefixo(b, d) => MesmoPrefixo(a, d)
                /\ (MesmoPrefixo(a, d) <=> MesmoPrefixo(b, d)) =>
                      SaldoAntes(a, inicio) >= SaldoAntes(b, inicio)

\* One sweep took a donor of larger balance before a donor of the same
\* group that comes first in the unit, and one sweep took a donor of the
\* same two digits before a donor of other digits that comes first
C20_Witness ==
    /\ \E i \in Commits, j \in Commits :
          /\ i < j /\ C20_MesmaVarredura(i, j)
          /\ MesmoPrefixo(hist[i].origem, hist[i].destino)
                <=> MesmoPrefixo(hist[j].origem, hist[i].destino)
          /\ hist[i].origem[2] > hist[j].origem[2]
          /\ SaldoAntes(hist[i].origem, i) > SaldoAntes(hist[j].origem, i)
    /\ \E i \in Commits, j \in Commits :
          /\ i < j /\ C20_MesmaVarredura(i, j)
          /\ MesmoPrefixo(hist[i].origem, hist[i].destino)
          /\ ~MesmoPrefixo(hist[j].origem, hist[i].destino)
          /\ hist[i].origem[2] > hist[j].origem[2]

-----------------------------------------------------------------------------
(* C21: in the external pass the donor units of a deficitary unit are      *)
(* taken in non-increasing order of their total surplus (the sum of the    *)
(* balances of their eligible surplus natures when the processing of the   *)
(* deficitary unit starts; ties in parse order): no external transfer is   *)
(* committed from a donor unit while a donor unit earlier in that order    *)
(* still has a nature with capacity above 0.01.                            *)

\* The first external transfer into the unit the i-th transfer goes to: the
\* ledger just before it is the ledger when the processing of that unit
\* starts
C21_Inicio(i) ==
    CHOOSE k \in Commits :
        /\ ~EhInterna(k) /\ hist[k].destino[1] = hist[i].destino[1]
        /\ \A m \in Commits :
              (~EhInterna(m) /\ hist[m].destino[1] = hist[i].destino[1]) => k <= m

\* The eligible surplus natures of unit e at that moment
C21_NaturezasSuper(e, i) ==
    {x \in Refs : /\ x[1] = e
                  /\ SaldoAntes(x, C21_Inicio(i)) > 0
                  /\ NatDe(x).fonte # FONTE_PROIBIDA
                  /\ NatDe(x).codigo \notin NATUREZAS_PROIBIDAS}

C21_Candidata(e, i) ==
    /\ ugs_dados[e].fonte # FONTE_PROIBIDA
    /\ ugs_dados[e].fonte = ugs_dados[hist[i].destino[1]].fonte
    /\ ugs_dados[e].codigo # ugs_dados[hist[i].destino[1]].codigo
    /\ C21_NaturezasSuper(e, i) # {}

C21_SuperavitTotal(e, i) ==
    Soma([n \in 1..Len(ugs_dados[e].naturezas) |->
             IF <<e, n>> \in C21_NaturezasSuper(e, i)
             THEN SaldoAntes(<<e, n>>, C21_Inicio(i)) ELSE 0])

C21_Precede(e, b, i) ==
    \/ C21_SuperavitTotal(e, i) > C21_SuperavitTotal(b, i)
    \/ C21_SuperavitTotal(e, i) = C21_SuperavitTotal(b, i) /\ e < b

C21_CapacidadeAntes(x, i) ==
    calcular_capacidade_doacao([NatDe(x) EXCEPT !.saldo_atual = SaldoAntes(x, i)])

C21_OrdemDasUGsDoadoras ==
    \A i \in Commits :
        ~EhInterna(i) =>
            \A e \in 1..Len(ugs_dados) :
                (C21_Candidata(e, i) /\ C21_Precede(e, hist[i].origem[1], i)) =>
                    \A x \in C21_NaturezasSuper(e, i) : C21_CapacidadeAntes(x, i) <= EPS

-----------------------------------------------------------------------------
(* C22: for every nature state calcular_capacidade_doacao returns 0 when   *)
(* saldo_atual <= 0 and otherwise                                          *)
(* max(0, min(max(0, (original - reserve) - (original - atual)),           *)
(*            40% of original, atual - reserve)), reserve = 20% of         *)
(* original; the result is >= 0, at most max(0, atual - reserve), and 0    *)
(* for every nature whose saldo_original is <= 0.  (Stated on hundredfold  *)
(* amounts, so that no percentage is divided.)                             *)
C22_CapacidadeComoDescrita ==
    chamada.n = 1 =>
        LET original == NatDe(chamada.natureza).saldo_original
            atual == NatDe(chamada.natureza).saldo_atual
            reserva100 == 20 * original
            capacidade == chamada.capacidade
        IN  /\ atual <= 0 => capacidade = 0
            /\ atual > 0 =>
                  100 * capacidade =
                      Max(0, Min(Min(Max(0, (100 * original - reserva100)
                                            - 100 * (original - atual)),
                                     40 * original),
                                 100 * atual - reserva100))
            /\ capacidade >= 0
            /\ 100 * capacidade <= Max(0, 100 * atual - reserva100)
            /\ original <= 0 => capacidade = 0

\* The function was applied to a surplus nature whose capacity is the 40%
\* of one operation, below what its reserve leaves
C22_Witness ==
    /\ chamada.n = 1
    /\ LET original == NatDe(chamada.natureza).saldo_original
           atual == NatDe(chamada.natureza).saldo_atual
       IN  /\ original > 0
           /\ chamada.capacidade > 0
           /\ 100 * chamada.capacidade = 40 * original
           /\ 100 * chamada.capacidade < 100 * atual - 20 * original

-----------------------------------------------------------------------------
(* C23: the kind of every committed record agrees with the transfer: it is *)
(* one of the three internal kinds exactly when source unit = destination  *)
(* unit; a same-digits kind (internal or external) only when the two       *)
(* natures have the same two first digits, the plain internal or external  *)
(* kind only when they differ; the single-donor kind is written only by    *)
(* the internal pass.                                                      *)
C23_Internos == {"Interna (unica)", "Interna (mesmos digitos)", "Interna"}

C23_Externos == {"Externa (mesmos digitos)", "Externa"}

C23_Conforme ==
    \A i \in 1..Len(remanejamentos) :
        LET rem == remanejamentos[i]
            mesmos == rem.NaturezaOrigem \div 10000 = rem.NaturezaDestino \div 10000
        IN  /\ rem.Tipo \in C23_Internos \cup C23_Externos
            /\ rem.Tipo \in C23_Internos <=> rem.UGOrigem = rem.UGDestino
            /\ rem.Tipo \in C23_Internos <=> hist[i].origem[1] = hist[i].destino[1]
            /\ rem.Tipo \in {"Interna (mesmos digitos)", "Externa (mesmos digitos)"} => mesmos
            /\ rem.Tipo \in {"Interna", "Externa"} => ~mesmos

C23_UnicaSoNoInterno ==
    \A i \in 1..Len(remanejamentos') :
        (i > Len(remanejamentos) /\ remanejamentos'[i].Tipo = "Interna (unica)") =>
            pc = "interno"

C23_TipoConforme == [][C23_Conforme' /\ C23_UnicaSoNoInterno]_vars

\* A run with a single-donor record between natures of different digits, a
\* plain internal record and an external record
C23_Witness ==
    /\ \E i \in Commits : /\ remanejamentos[i].Tipo = "Interna (unica)"
                          /\ ~MesmoPrefixo(hist[i].origem, hist[i].destino)
    /\ \E i \in Commits : remanejamentos[i].Tipo = "Interna"
    /\ \E i \in Commits : remanejamentos[i].Tipo \in C23_Externos

-----------------------------------------------------------------------------
(* C24: every run terminates: each pass finishes after a number of         *)
(* transfers bounded by (number of deficit natures) x (number of donor     *)
(* natures), and the run then reaches result validation: a run that can    *)
(* take no further step has validated its result.                          *)
C24_Deficitarias == {r \in Refs : NatDe(r).saldo_original < 0}

C24_Doadoras == {r \in Refs : NatDe(r).saldo_original > 0}

C24_TransferenciasLimitadas ==
    /\ Cardinality({i \in Commits : EhInterna(i)})
          <= Cardinality(C24_Deficitarias) * Cardinality(C24_Doadoras)
    /\ Cardinality({i \in Commits : ~EhInterna(i)})
          <= Cardinality(C24_Deficitarias) * Cardinality(C24_Doadoras)

\* No action of Next is enabled: the guards of the six actions are the four
\* positions below
C24_Parado == pc \notin {"identificar", "interno", "externo", "fim"}

C24_TerminaNaValidacao ==
    /\ C24_TransferenciasLimitadas
    /\ C24_Parado => validacoes # <<>>

-----------------------------------------------------------------------------
(* C25: money is conserved: in every state of a run the sum of saldo_atual *)
(* over all natures of all units equals the sum of their saldo_original.   *)
C25_SomaDe(campo) ==
    Soma([u \in 1..Len(ugs_dados) |->
             Soma([n \in 1..Len(ugs_dados[u].naturezas) |->
                      ugs_dados[u].naturezas[n][campo]])])

C25_DinheiroConservado == C25_SomaDe("saldo_atual") = C25_SomaDe("saldo_original")

\* A finished run with an internal and an external transfer, one of them of
\* an amount that is not a whole number of cents
C25_Witness ==
    /\ pc = "fim"
    /\ \E i \in Commits : EhInterna(i)
    /\ \E i \in Commits : ~EhInterna(i)
    /\ \E i \in Commits : hist[i].valor % 10 # 0

-----------------------------------------------------------------------------
(* C26: when unit codes are unique and nature codes are unique within a    *)
(* unit, a run commits at most one transfer for each ordered pair (source  *)
(* nature, destination nature): no key (fund, source unit, source nature,  *)
(* destination unit, destination nature) occurs twice in the committed     *)
(* list, and the consolidated view has the same records and amounts as the *)
(* committed list.                                                         *)
C26_CodigosUnicos ==
    /\ \A u \in 1..Len(ugs_dados), v \in 1..Len(ugs_dados) :
          ugs_dados[u].codigo = ugs_dados[v].codigo => u = v
    /\ \A r \in Refs, q \in Refs :
          (r[1] = q[1] /\ NatDe(r).codigo = NatDe(q).codigo) => r = q

C26_UmaTransferenciaPorPar ==
    C26_CodigosUnicos =>
        /\ \A i \in Commits, j \in Commits :
              (hist[i].origem = hist[j].origem /\ hist[i].destino = hist[j].destino)
                  => i = j
        /\ \A i \in Commits, j \in Commits :
              Chave(remanejamentos[i]) = Chave(remanejamentos[j]) => i = j
        /\ pc = "retornado" => resultado.aba_remanejamento = remanejamentos

\* A returned run on a ledger of unique codes where one unit has three
\* natures, with internal and external transfers, a donor that gave twice
\* and a deficit that received twice
C26_Witness ==
    /\ C26_CodigosUnicos
    /\ pc = "retornado"
    /\ \E u \in 1..Len(ugs_dados) : Len(ugs_dados[u].naturezas) = 3
    /\ \E i \in Commits : EhInterna(i)
    /\ \E i \in Commits : ~EhInterna(i)
    /\ \E i \in Commits, j \in Commits : i # j /\ hist[i].origem = hist[j].origem
    /\ \E i \in Commits, j \in Commits : i # j /\ hist[i].destino = hist[j].destino

=============================================================================
